---- MODULE Spec2Model ----
(***************************************************************************)
(* State-machine model of the to-do list engine.  Spec: the ProjectService *)
(* business rules (src/src/todolist/service.py) on top of the in-memory    *)
(* repository (src/src/app/repositories/project_repository.py).           *)
(* RepoSpec: the repository interface itself, every call made on the       *)
(* in-memory repository and on the persistent one                          *)
(* (src/src/app/repositories/sqlalchemy_repository.py) side by side.       *)
(*                                                                         *)
(* Strings are TLA+ strings (only their length and equality matter), except *)
(* deadline texts, which are sequences of one-character strings so that    *)
(* parsing can look at the characters.  Optional values are <<>> (None) or *)
(* <<x>>.  Timestamps are integers counting half days in a calendar of     *)
(* 31-day months, which preserves the order of valid dates.                *)
(***************************************************************************)
EXTENDS Integers, Sequences, FiniteSets, TLC

VARIABLES
    projects,          \* InMemoryProjectRepository._projects, in dict (insertion) order
    next_project_id,   \* InMemoryProjectRepository._next_project_id
    now,               \* the value datetime.now() returns
    result,            \* what the last operation was given and what it returned or raised
    steps,             \* number of operations performed so far
    deleted_tasks,     \* history: the tasks held by projects when they were deleted
    db,                \* the database behind SqlAlchemyProjectRepository
    db_result,         \* what the last operation on the persistent repository returned or raised
    assigned_task_ids, \* history: <<repository, project id, task id>> of every task ever stored
    sweep              \* the auto-close sweep in progress: its position, snapshot and counts

vars ==
    <<projects, next_project_id, now, result, steps, deleted_tasks, db, db_result,
      assigned_task_ids, sweep>>

-----------------------------------------------------------------------------
(* Bounds of the model *)

MaxSteps == 4

\* ProjectService._max_projects and ._max_tasks: configuration, set at start-up
max_projects == 2
max_tasks == 2

-----------------------------------------------------------------------------
(* Program constants *)

NameMaxLen == 30
DescriptionMaxLen == 150
FirstProjectId == 1
FirstTaskId == 1

None == <<>>
Some(x) == <<x>>

NoError == "ok"
ValidationError == "ValidationError"
DuplicateProjectNameError == "DuplicateProjectNameError"
ProjectLimitExceededError == "ProjectLimitExceededError"
TaskLimitExceededError == "TaskLimitExceededError"
EntityDoesNotExistError == "EntityDoesNotExistError"

TaskStatus == {"todo", "doing", "done"}

-----------------------------------------------------------------------------
(* Time and deadline texts *)

\* datetime(y, m, d) at midnight, in half days
Midnight(y, m, d) == (((y * 12) + (m - 1)) * 31 + (d - 1)) * 2

Digits == <<"0", "1", "2", "3", "4", "5", "6", "7", "8", "9">>
IsDigit(c) == \E i \in 1..10 : Digits[i] = c
DigitValue(c) == (CHOOSE i \in 1..10 : Digits[i] = c) - 1

RECURSIVE Number(_)
Number(s) == IF s = <<>> THEN 0
             ELSE Number(SubSeq(s, 1, Len(s) - 1)) * 10 + DigitValue(s[Len(s)])

AllDigits(s) == \A i \in 1..Len(s) : IsDigit(s[i])

IsLeap(y) == (y % 4 = 0 /\ y % 100 # 0) \/ y % 400 = 0
DaysInMonth(y, m) == IF m = 2 THEN (IF IsLeap(y) THEN 29 ELSE 28)
                     ELSE IF m \in {4, 6, 9, 11} THEN 30 ELSE 31

\* positions of the "-" separators of a text
Dashes(s) == {i \in 1..Len(s) : s[i] = "-"}

\* datetime.strptime(text, "%Y-%m-%d"): <<timestamp>>, or <<>> for ValueError.
\* %Y is four digits, %m and %d one or two digits, the date must exist.
strptime(s) ==
    IF Cardinality(Dashes(s)) # 2 THEN None
    ELSE LET d1 == CHOOSE i \in Dashes(s) : \A j \in Dashes(s) : i <= j
             d2 == CHOOSE i \in Dashes(s) : \A j \in Dashes(s) : j <= i
             ys == SubSeq(s, 1, d1 - 1)
             ms == SubSeq(s, d1 + 1, d2 - 1)
             ds == SubSeq(s, d2 + 1, Len(s))
         IN  IF /\ Len(ys) = 4 /\ Len(ms) \in {1, 2} /\ Len(ds) \in {1, 2}
                /\ AllDigits(ys) /\ AllDigits(ms) /\ AllDigits(ds)
                /\ Number(ms) \in 1..12
                /\ Number(ds) \in 1..DaysInMonth(Number(ys), Number(ms))
             THEN Some(Midnight(Number(ys), Number(ms), Number(ds)))
             ELSE None

\* ProjectService._parse_deadline: [err, value]
_parse_deadline(deadline_str) ==
    IF deadline_str = None THEN [err |-> NoError, value |-> None]
    ELSE IF strptime(deadline_str[1]) = None
         THEN [err |-> ValidationError, value |-> None]
         ELSE [err |-> NoError, value |-> strptime(deadline_str[1])]

-----------------------------------------------------------------------------
(* Entities *)

\* Task(id=..., title=..., description=..., deadline=...) appended to the task
\* list of the project project_id; status starts as todo, closed_at unset
Task(id, project_id, title, description, deadline) ==
    [id |-> id, project_id |-> project_id, title |-> title,
     description |-> description, status |-> "todo",
     deadline |-> deadline, closed_at |-> None]

\* Project(id=..., name=..., description=...) created at time t, with the
\* attributes the in-memory repository reads and writes: creation_date
\* (list_projects), tasks and _next_task_id (create_task)
Project(id, name, description, t) ==
    [id |-> id, name |-> name, description |-> description,
     creation_date |-> t, tasks |-> <<>>, next_task_id |-> FirstTaskId]

-----------------------------------------------------------------------------
(* In-memory repository.  R is the repository state                        *)
(* [projects, next_project_id]; an operation gives an outcome              *)
(* [err, ret, repo]: the error raised (or NoError), the returned value     *)
(* wrapped in a sequence, and the repository state afterwards.             *)

Outcome(err, ret, R) == [err |-> err, ret |-> ret, repo |-> R]

\* index in R.projects of the project with this id, 0 when absent
IndexOfProject(R, id) ==
    IF \E i \in 1..Len(R.projects) : R.projects[i].id = id
    THEN CHOOSE i \in 1..Len(R.projects) : R.projects[i].id = id
    ELSE 0

\* index in project.tasks of the first task with this id, 0 when absent
IndexOfTask(project, task_id) ==
    IF \E i \in 1..Len(project.tasks) : project.tasks[i].id = task_id
    THEN CHOOSE i \in 1..Len(project.tasks) :
            /\ project.tasks[i].id = task_id
            /\ \A j \in 1..(i - 1) : project.tasks[j].id # task_id
    ELSE 0

\* create_project that numbers the project by the count of stored projects
Repo_create_project_CountAsId(R, name, description, t) ==
    LET project == Project(Len(R.projects) + 1, name, description, t)
    IN  Outcome(NoError, Some(project),
                [projects |-> Append(R.projects, project),
                 next_project_id |-> R.next_project_id + 1])

Repo_create_project(R, name, description, t) ==
    LET project == Project(R.next_project_id, name, description, t)
    IN  Outcome(NoError, Some(project),
                [projects |-> Append(R.projects, project),
                 next_project_id |-> R.next_project_id + 1])

\* insertion for a sort in descending order of creation_date
RECURSIVE InsertByCreation_Descending(_, _)
InsertByCreation_Descending(sorted, p) ==
    IF sorted = <<>> THEN <<p>>
    ELSE IF sorted[Len(sorted)].creation_date >= p.creation_date
         THEN Append(sorted, p)
         ELSE Append(InsertByCreation_Descending(SubSeq(sorted, 1, Len(sorted) - 1), p),
                     sorted[Len(sorted)])

\* sorted(..., key=creation_date): stable insertion sort
RECURSIVE InsertByCreation(_, _)
InsertByCreation(sorted, p) ==
    IF sorted = <<>> THEN <<p>>
    ELSE IF sorted[Len(sorted)].creation_date <= p.creation_date
         THEN Append(sorted, p)
         ELSE Append(InsertByCreation(SubSeq(sorted, 1, Len(sorted) - 1), p),
                     sorted[Len(sorted)])

RECURSIVE SortByCreation(_)
SortByCreation(ps) ==
    IF ps = <<>> THEN <<>>
    ELSE InsertByCreation(SortByCreation(SubSeq(ps, 1, Len(ps) - 1)), ps[Len(ps)])

Repo_list_projects(R) == Outcome(NoError, SortByCreation(R.projects), R)

Repo_find_project_by_id(R, id) ==
    IF IndexOfProject(R, id) = 0
    THEN Outcome(EntityDoesNotExistError, None, R)
    ELSE Outcome(NoError, Some(R.projects[IndexOfProject(R, id)]), R)

Repo_find_project_by_name(R, name) ==
    IF \E i \in 1..Len(R.projects) : R.projects[i].name = name
    THEN LET first == CHOOSE i \in 1..Len(R.projects) :
                         /\ R.projects[i].name = name
                         /\ \A j \in 1..(i - 1) : R.projects[j].name # name
         IN  Outcome(NoError, Some(R.projects[first]), R)
    ELSE Outcome(NoError, None, R)

\* update_project that stores a newly made project in place of the old one
Repo_update_project_FreshObject(R, id, new_name, new_description) ==
    LET i == IndexOfProject(R, id)
    IN  IF i = 0 THEN Outcome(EntityDoesNotExistError, None, R)
        ELSE LET project == Project(id, new_name, new_description,
                                    R.projects[i].creation_date)
             IN  Outcome(NoError, Some(project),
                         [R EXCEPT !.projects[i] = project])

Repo_update_project(R, id, new_name, new_description) ==
    LET i == IndexOfProject(R, id)
    IN  IF i = 0 THEN Outcome(EntityDoesNotExistError, None, R)
        ELSE LET project == [R.projects[i] EXCEPT !.name = new_name,
                                                    !.description = new_description]
             IN  Outcome(NoError, Some(project),
                         [R EXCEPT !.projects[i] = project])

\* del self._projects[id]: the project goes, and its nested tasks with it
RemoveAt(s, i) == SubSeq(s, 1, i - 1) \o SubSeq(s, i + 1, Len(s))

\* delete_project that checks existence and removes nothing
Repo_delete_project_NoDelete(R, id) ==
    LET i == IndexOfProject(R, id)
    IN  IF i = 0 THEN Outcome(EntityDoesNotExistError, None, R)
        ELSE Outcome(NoError, None, R)

Repo_delete_project(R, id) ==
    LET i == IndexOfProject(R, id)
    IN  IF i = 0 THEN Outcome(EntityDoesNotExistError, None, R)
        ELSE Outcome(NoError, None, [R EXCEPT !.projects = RemoveAt(R.projects, i)])

\* create_task that numbers the task by the count of the project's tasks
Repo_create_task_CountAsId(R, project_id, title, description, deadline) ==
    LET i == IndexOfProject(R, project_id)
    IN  IF i = 0 THEN Outcome(EntityDoesNotExistError, None, R)
        ELSE LET project == R.projects[i]
                 task == Task(Len(project.tasks) + 1, project.id, title,
                              description, deadline)
             IN  Outcome(NoError, Some(task),
                         [R EXCEPT !.projects[i] =
                             [project EXCEPT !.next_task_id = @ + 1,
                                             !.tasks = Append(@, task)]])

Repo_create_task(R, project_id, title, description, deadline) ==
    LET i == IndexOfProject(R, project_id)
    IN  IF i = 0 THEN Outcome(EntityDoesNotExistError, None, R)
        ELSE LET project == R.projects[i]
                 task == Task(project.next_task_id, project.id, title,
                              description, deadline)
             IN  Outcome(NoError, Some(task),
                         [R EXCEPT !.projects[i] =
                             [project EXCEPT !.next_task_id = @ + 1,
                                             !.tasks = Append(@, task)]])

\* update_task_status looking the task id up in every project
Repo_update_task_status_AnyProject(R, project_id, task_id, new_status) ==
    LET i == IndexOfProject(R, project_id)
    IN  IF i = 0 THEN Outcome(EntityDoesNotExistError, None, R)
        ELSE LET k == IndexOfTask(R.projects[i], task_id)
             IN  IF k = 0 THEN Outcome(EntityDoesNotExistError, None, R)
                 ELSE LET task == [R.projects[i].tasks[k] EXCEPT !.status = new_status]
                          Updated(tasks) ==
                              [m \in 1..Len(tasks) |->
                                  IF tasks[m].id = task_id
                                  THEN [tasks[m] EXCEPT !.status = new_status]
                                  ELSE tasks[m]]
                      IN  Outcome(NoError, Some(task),
                                  [R EXCEPT !.projects =
                                      [j \in 1..Len(R.projects) |->
                                          [R.projects[j] EXCEPT !.tasks = Updated(@)]]])

Repo_update_task_status(R, project_id, task_id, new_status) ==
    LET i == IndexOfProject(R, project_id)
    IN  IF i = 0 THEN Outcome(EntityDoesNotExistError, None, R)
        ELSE LET k == IndexOfTask(R.projects[i], task_id)
             IN  IF k = 0 THEN Outcome(EntityDoesNotExistError, None, R)
                 ELSE LET task == [R.projects[i].tasks[k] EXCEPT !.status = new_status]
                      IN  Outcome(NoError, Some(task),
                                  [R EXCEPT !.projects[i].tasks[k] = task])

\* update_task that leaves closed_at as it was
Repo_update_task_NoClosedAt(R, project_id, task_id, new_title, new_description, new_status, new_deadline, new_closed_at) ==
    LET i == IndexOfProject(R, project_id)
    IN  IF i = 0 THEN Outcome(EntityDoesNotExistError, None, R)
        ELSE LET k == IndexOfTask(R.projects[i], task_id)
             IN  IF k = 0 THEN Outcome(EntityDoesNotExistError, None, R)
                 ELSE LET task == [R.projects[i].tasks[k] EXCEPT
                                      !.title = new_title,
                                      !.description = new_description,
                                      !.status = new_status,
                                      !.deadline = new_deadline]
                      IN  Outcome(NoError, Some(task),
                                  [R EXCEPT !.projects[i].tasks[k] = task])

Repo_update_task(R, project_id, task_id, new_title, new_description, new_status, new_deadline, new_closed_at) ==
    LET i == IndexOfProject(R, project_id)
    IN  IF i = 0 THEN Outcome(EntityDoesNotExistError, None, R)
        ELSE LET k == IndexOfTask(R.projects[i], task_id)
             IN  IF k = 0 THEN Outcome(EntityDoesNotExistError, None, R)
                 ELSE LET task == [R.projects[i].tasks[k] EXCEPT
                                      !.title = new_title,
                                      !.description = new_description,
                                      !.status = new_status,
                                      !.deadline = new_deadline,
                                      !.closed_at = new_closed_at]
                      IN  Outcome(NoError, Some(task),
                                  [R EXCEPT !.projects[i].tasks[k] = task])

\* delete_task that returns silently when the project holds no such task
Repo_delete_task_Silent(R, project_id, task_id) ==
    LET i == IndexOfProject(R, project_id)
    IN  IF i = 0 THEN Outcome(EntityDoesNotExistError, None, R)
        ELSE LET k == IndexOfTask(R.projects[i], task_id)
             IN  IF k = 0 THEN Outcome(NoError, None, R)
                 ELSE Outcome(NoError, None,
                              [R EXCEPT !.projects[i].tasks =
                                  RemoveAt(R.projects[i].tasks, k)])

\* delete_task that finds the task and leaves it in the project
Repo_delete_task_NoRemove(R, project_id, task_id) ==
    LET i == IndexOfProject(R, project_id)
    IN  IF i = 0 THEN Outcome(EntityDoesNotExistError, None, R)
        ELSE LET k == IndexOfTask(R.projects[i], task_id)
             IN  IF k = 0 THEN Outcome(EntityDoesNotExistError, None, R)
                 ELSE Outcome(NoError, None, R)

Repo_delete_task(R, project_id, task_id) ==
    LET i == IndexOfProject(R, project_id)
    IN  IF i = 0 THEN Outcome(EntityDoesNotExistError, None, R)
        ELSE LET k == IndexOfTask(R.projects[i], task_id)
             IN  IF k = 0 THEN Outcome(EntityDoesNotExistError, None, R)
                 ELSE Outcome(NoError, None,
                              [R EXCEPT !.projects[i].tasks =
                                  RemoveAt(R.projects[i].tasks, k)])

\* the test without the status filter
IsOverdue_AnyStatus(task, t) ==
    task.deadline # None /\ task.deadline[1] < t

\* the test with <= instead of <
IsOverdue_NotStrict(task, t) ==
    task.deadline # None /\ task.deadline[1] <= t /\ task.status # "done"

\* the test of the loop body of find_overdue_tasks
IsOverdue(task, t) ==
    task.deadline # None /\ task.deadline[1] < t /\ task.status # "done"

RECURSIVE OverdueIn(_, _)
OverdueIn(tasks, t) ==
    IF tasks = <<>> THEN <<>>
    ELSE (IF IsOverdue(Head(tasks), t) THEN <<Head(tasks)>> ELSE <<>>)
         \o OverdueIn(Tail(tasks), t)

RECURSIVE OverdueAcross(_, _)
OverdueAcross(ps, t) ==
    IF ps = <<>> THEN <<>>
    ELSE OverdueIn(Head(ps).tasks, t) \o OverdueAcross(Tail(ps), t)

Repo_find_overdue_tasks(R, t) == Outcome(NoError, OverdueAcross(R.projects, t), R)

-----------------------------------------------------------------------------
(* Persistent repository: SqlAlchemyProjectRepository over the ORM models. *)
(* D is the database: the rows of the projects and tasks tables, the next  *)
(* value of each table's id sequence, and txn, the ordinal of the          *)
(* session's current transaction.  Every writing method commits, which     *)
(* ends the transaction, and the next one starts later: created_at, the    *)
(* server's now() of the inserting transaction, is represented by txn and  *)
(* so differs between any two rows of a table.  An operation gives         *)
(* [err, ret, db].  The methods are given what the Service gives them:     *)
(* names no other project holds and texts within the column lengths, so   *)
(* that no commit fails on a constraint.                                   *)

FirstRowId == 1

EmptyDb ==
    [projects |-> {}, tasks |-> {}, project_seq |-> FirstRowId,
     task_seq |-> FirstRowId, txn |-> 1]

SqlOutcome(err, ret, D) == [err |-> err, ret |-> ret, db |-> D]

\* session.commit()
Commit(D) == [D EXCEPT !.txn = @ + 1]

\* Project(name=..., description=...) as inserted: id from the sequence,
\* created_at from the server
ProjectRow(D, name, description) ==
    [id |-> D.project_seq, name |-> name, description |-> description,
     created_at |-> D.txn]

\* a task row inserted without the status default
TaskRow_NoDefault(D, project_id, title, description, deadline) ==
    [id |-> D.task_seq, project_id |-> project_id, title |-> title,
     description |-> description, status |-> None, deadline |-> deadline,
     created_at |-> D.txn, closed_at |-> None]

\* Task(project_id=..., title=..., description=..., deadline=...) as
\* inserted: id from the sequence, status from the column default
TaskRow(D, project_id, title, description, deadline) ==
    [id |-> D.task_seq, project_id |-> project_id, title |-> title,
     description |-> description, status |-> "todo", deadline |-> deadline,
     created_at |-> D.txn, closed_at |-> None]

\* a Project object: its row and, through the tasks relationship, the task
\* rows that refer to it (loaded without an ORDER BY, hence a set)
Loaded(D, row) ==
    [id |-> row.id, name |-> row.name, description |-> row.description,
     created_at |-> row.created_at,
     tasks |-> {task \in D.tasks : task.project_id = row.id}]

\* session.get(Project, id)
HasProjectRow(D, id) == \E row \in D.projects : row.id = id
ProjectRowOf(D, id) == CHOOSE row \in D.projects : row.id = id

\* query(Task).filter_by(project_id=project.id, id=task_id).first()
HasTaskRow(D, project_id, task_id) ==
    \E task \in D.tasks : task.project_id = project_id /\ task.id = task_id
TaskRowOf(D, project_id, task_id) ==
    CHOOSE task \in D.tasks : task.project_id = project_id /\ task.id = task_id

Sql_create_project(D, name, description) ==
    LET row == ProjectRow(D, name, description)
        after == Commit([D EXCEPT !.projects = @ \cup {row},
                                  !.project_seq = @ + 1])
    IN  SqlOutcome(NoError, Some(Loaded(after, row)), after)

\* ORDER BY created_at (no two rows share a created_at)
RECURSIVE OrderByCreatedAt(_)
OrderByCreatedAt(rows) ==
    IF rows = {} THEN <<>>
    ELSE LET first == CHOOSE row \in rows :
                          \A other \in rows : row.created_at <= other.created_at
         IN  <<first>> \o OrderByCreatedAt(rows \ {first})

Sql_list_projects(D) ==
    LET ordered == OrderByCreatedAt(D.projects)
    IN  SqlOutcome(NoError, [k \in 1..Len(ordered) |-> Loaded(D, ordered[k])], D)

Sql_find_project_by_id(D, id) ==
    IF ~HasProjectRow(D, id) THEN SqlOutcome(EntityDoesNotExistError, None, D)
    ELSE SqlOutcome(NoError, Some(Loaded(D, ProjectRowOf(D, id))), D)

Sql_find_project_by_name(D, name) ==
    IF \E row \in D.projects : row.name = name
    THEN SqlOutcome(NoError,
                    Some(Loaded(D, CHOOSE row \in D.projects : row.name = name)), D)
    ELSE SqlOutcome(NoError, None, D)

Sql_update_project(D, id, new_name, new_description) ==
    IF ~HasProjectRow(D, id) THEN SqlOutcome(EntityDoesNotExistError, None, D)
    ELSE LET row == ProjectRowOf(D, id)
             project == [row EXCEPT !.name = new_name,
                                    !.description = new_description]
             after == Commit([D EXCEPT !.projects = (@ \ {row}) \cup {project}])
         IN  SqlOutcome(NoError, Some(Loaded(after, project)), after)

\* session.delete(project): the relationship's cascade deletes its tasks
Sql_delete_project(D, id) ==
    IF ~HasProjectRow(D, id) THEN SqlOutcome(EntityDoesNotExistError, None, D)
    ELSE SqlOutcome(NoError, None,
                    Commit([D EXCEPT
                               !.projects = @ \ {ProjectRowOf(D, id)},
                               !.tasks = {task \in @ : task.project_id # id}]))

Sql_create_task(D, project_id, title, description, deadline) ==
    IF ~HasProjectRow(D, project_id)
    THEN SqlOutcome(EntityDoesNotExistError, None, D)
    ELSE LET task == TaskRow(D, project_id, title, description, deadline)
         IN  SqlOutcome(NoError, Some(task),
                        Commit([D EXCEPT !.tasks = @ \cup {task},
                                         !.task_seq = @ + 1]))

Sql_update_task_status(D, project_id, task_id, new_status) ==
    IF ~HasProjectRow(D, project_id)
    THEN SqlOutcome(EntityDoesNotExistError, None, D)
    ELSE IF ~HasTaskRow(D, project_id, task_id)
         THEN SqlOutcome(EntityDoesNotExistError, None, D)
         ELSE LET row == TaskRowOf(D, project_id, task_id)
                  task == [row EXCEPT !.status = new_status]
              IN  SqlOutcome(NoError, Some(task),
                             Commit([D EXCEPT !.tasks = (@ \ {row}) \cup {task}]))

Sql_update_task(D, project_id, task_id, new_title, new_description, new_status, new_deadline) ==
    IF ~HasProjectRow(D, project_id)
    THEN SqlOutcome(EntityDoesNotExistError, None, D)
    ELSE IF ~HasTaskRow(D, project_id, task_id)
         THEN SqlOutcome(EntityDoesNotExistError, None, D)
         ELSE LET row == TaskRowOf(D, project_id, task_id)
                  task == [row EXCEPT !.title = new_title,
                                      !.description = new_description,
                                      !.status = new_status,
                                      !.deadline = new_deadline]
              IN  SqlOutcome(NoError, Some(task),
                             Commit([D EXCEPT !.tasks = (@ \ {row}) \cup {task}]))

Sql_delete_task(D, project_id, task_id) ==
    IF ~HasProjectRow(D, project_id)
    THEN SqlOutcome(EntityDoesNotExistError, None, D)
    ELSE IF ~HasTaskRow(D, project_id, task_id)
         THEN SqlOutcome(EntityDoesNotExistError, None, D)
         ELSE SqlOutcome(NoError, None,
                         Commit([D EXCEPT !.tasks =
                                    @ \ {TaskRowOf(D, project_id, task_id)}]))

-----------------------------------------------------------------------------
(* ProjectService.  An operation gives [err, ret, repo, calls]: as for the  *)
(* repository, plus the repository methods it invoked, in order.           *)

Raise(err, R, calls) == [err |-> err, ret |-> None, repo |-> R, calls |-> calls]
Return(outcome, calls) ==
    [err |-> outcome.err, ret |-> outcome.ret, repo |-> outcome.repo, calls |-> calls]

\* create_project without the duplicate-name check
Service_create_project_NoDuplicateCheck(R, name, description, t) ==
    IF Len(name) > NameMaxLen THEN Raise(ValidationError, R, <<>>)
    ELSE IF Len(description) > DescriptionMaxLen THEN Raise(ValidationError, R, <<>>)
    ELSE IF Len(Repo_list_projects(R).ret) >= max_projects
         THEN Raise(ProjectLimitExceededError, R, <<"list_projects">>)
    ELSE Return(Repo_create_project(R, name, description, t),
                <<"list_projects", "create_project">>)

\* create_project comparing the project count with > instead of >=
Service_create_project_OffByOne(R, name, description, t) ==
    IF Len(name) > NameMaxLen THEN Raise(ValidationError, R, <<>>)
    ELSE IF Len(description) > DescriptionMaxLen THEN Raise(ValidationError, R, <<>>)
    ELSE IF Len(Repo_list_projects(R).ret) > max_projects
         THEN Raise(ProjectLimitExceededError, R, <<"list_projects">>)
    ELSE IF Repo_find_project_by_name(R, name).ret # None
         THEN Raise(DuplicateProjectNameError, R,
                    <<"list_projects", "find_project_by_name">>)
    ELSE Return(Repo_create_project(R, name, description, t),
                <<"list_projects", "find_project_by_name", "create_project">>)

\* create_project checking the project limit before the lengths
Service_create_project_LimitFirst(R, name, description, t) ==
    IF Len(Repo_list_projects(R).ret) >= max_projects
    THEN Raise(ProjectLimitExceededError, R, <<"list_projects">>)
    ELSE IF Len(name) > NameMaxLen THEN Raise(ValidationError, R, <<"list_projects">>)
    ELSE IF Len(description) > DescriptionMaxLen
         THEN Raise(ValidationError, R, <<"list_projects">>)
    ELSE IF Repo_find_project_by_name(R, name).ret # None
         THEN Raise(DuplicateProjectNameError, R,
                    <<"list_projects", "find_project_by_name">>)
    ELSE Return(Repo_create_project(R, name, description, t),
                <<"list_projects", "find_project_by_name", "create_project">>)

\* create_project checking for a duplicate name before the project limit
Service_create_project_DuplicateFirst(R, name, description, t) ==
    IF Len(name) > NameMaxLen THEN Raise(ValidationError, R, <<>>)
    ELSE IF Len(description) > DescriptionMaxLen THEN Raise(ValidationError, R, <<>>)
    ELSE IF Repo_find_project_by_name(R, name).ret # None
         THEN Raise(DuplicateProjectNameError, R, <<"find_project_by_name">>)
    ELSE IF Len(Repo_list_projects(R).ret) >= max_projects
         THEN Raise(ProjectLimitExceededError, R,
                    <<"find_project_by_name", "list_projects">>)
    ELSE Return(Repo_create_project(R, name, description, t),
                <<"find_project_by_name", "list_projects", "create_project">>)

Service_create_project(R, name, description, t) ==
    IF Len(name) > NameMaxLen THEN Raise(ValidationError, R, <<>>)
    ELSE IF Len(description) > DescriptionMaxLen THEN Raise(ValidationError, R, <<>>)
    ELSE IF Len(Repo_list_projects(R).ret) >= max_projects
         THEN Raise(ProjectLimitExceededError, R, <<"list_projects">>)
    ELSE IF Repo_find_project_by_name(R, name).ret # None
         THEN Raise(DuplicateProjectNameError, R,
                    <<"list_projects", "find_project_by_name">>)
    ELSE Return(Repo_create_project(R, name, description, t),
                <<"list_projects", "find_project_by_name", "create_project">>)

\* add_task_to_project comparing the task count with > instead of >=
Service_add_task_to_project_OffByOne(R, project_id, title, description, deadline_str) ==
    LET found == Repo_find_project_by_id(R, project_id)
    IN  IF found.err # NoError THEN Return(found, <<"find_project_by_id">>)
        ELSE IF Len(found.ret[1].tasks) > max_tasks
             THEN Raise(TaskLimitExceededError, R, <<"find_project_by_id">>)
        ELSE IF Len(title) > NameMaxLen
             THEN Raise(ValidationError, R, <<"find_project_by_id">>)
        ELSE IF Len(description) > DescriptionMaxLen
             THEN Raise(ValidationError, R, <<"find_project_by_id">>)
        ELSE IF _parse_deadline(deadline_str).err # NoError
             THEN Raise(ValidationError, R, <<"find_project_by_id">>)
        ELSE Return(Repo_create_task(R, project_id, title, description,
                                     _parse_deadline(deadline_str).value),
                    <<"find_project_by_id", "create_task">>)

Service_add_task_to_project(R, project_id, title, description, deadline_str) ==
    LET found == Repo_find_project_by_id(R, project_id)
    IN  IF found.err # NoError THEN Return(found, <<"find_project_by_id">>)
        ELSE IF Len(found.ret[1].tasks) >= max_tasks
             THEN Raise(TaskLimitExceededError, R, <<"find_project_by_id">>)
        ELSE IF Len(title) > NameMaxLen
             THEN Raise(ValidationError, R, <<"find_project_by_id">>)
        ELSE IF Len(description) > DescriptionMaxLen
             THEN Raise(ValidationError, R, <<"find_project_by_id">>)
        ELSE IF _parse_deadline(deadline_str).err # NoError
             THEN Raise(ValidationError, R, <<"find_project_by_id">>)
        ELSE Return(Repo_create_task(R, project_id, title, description,
                                     _parse_deadline(deadline_str).value),
                    <<"find_project_by_id", "create_task">>)

\* edit_project that updates first and checks for a duplicate afterwards
Service_edit_project_UpdateFirst(R, project_id, new_name, new_description) ==
    LET found == Repo_find_project_by_id(R, project_id)
        existing_project == Repo_find_project_by_name(R, new_name).ret
        updated == Repo_update_project(R, project_id, new_name, new_description)
    IN  IF found.err # NoError THEN Return(found, <<"find_project_by_id">>)
        ELSE IF Len(new_name) > NameMaxLen
             THEN Raise(ValidationError, R, <<"find_project_by_id">>)
        ELSE IF Len(new_description) > DescriptionMaxLen
             THEN Raise(ValidationError, R, <<"find_project_by_id">>)
        ELSE IF existing_project # None /\ existing_project[1].id # project_id
             THEN Raise(DuplicateProjectNameError, updated.repo,
                        <<"find_project_by_id", "update_project", "find_project_by_name">>)
        ELSE Return(updated,
                    <<"find_project_by_id", "update_project", "find_project_by_name">>)

\* edit_project refusing every held name, the edited project's own included
Service_edit_project_NoSelfExemption(R, project_id, new_name, new_description) ==
    LET found == Repo_find_project_by_id(R, project_id)
        existing_project == Repo_find_project_by_name(R, new_name).ret
    IN  IF found.err # NoError THEN Return(found, <<"find_project_by_id">>)
        ELSE IF Len(new_name) > NameMaxLen
             THEN Raise(ValidationError, R, <<"find_project_by_id">>)
        ELSE IF Len(new_description) > DescriptionMaxLen
             THEN Raise(ValidationError, R, <<"find_project_by_id">>)
        ELSE IF existing_project # None
             THEN Raise(DuplicateProjectNameError, R,
                        <<"find_project_by_id", "find_project_by_name">>)
        ELSE Return(Repo_update_project(R, project_id, new_name, new_description),
                    <<"find_project_by_id", "find_project_by_name", "update_project">>)

Service_edit_project(R, project_id, new_name, new_description) ==
    LET found == Repo_find_project_by_id(R, project_id)
        existing_project == Repo_find_project_by_name(R, new_name).ret
    IN  IF found.err # NoError THEN Return(found, <<"find_project_by_id">>)
        ELSE IF Len(new_name) > NameMaxLen
             THEN Raise(ValidationError, R, <<"find_project_by_id">>)
        ELSE IF Len(new_description) > DescriptionMaxLen
             THEN Raise(ValidationError, R, <<"find_project_by_id">>)
        ELSE IF existing_project # None /\ existing_project[1].id # project_id
             THEN Raise(DuplicateProjectNameError, R,
                        <<"find_project_by_id", "find_project_by_name">>)
        ELSE Return(Repo_update_project(R, project_id, new_name, new_description),
                    <<"find_project_by_id", "find_project_by_name", "update_project">>)

Service_delete_project(R, project_id) ==
    Return(Repo_delete_project(R, project_id), <<"delete_project">>)

\* delete_task delegates to the repository, whose existence failures it
\* lets through
Service_delete_task(R, project_id, task_id) ==
    Return(Repo_delete_task(R, project_id, task_id), <<"delete_task">>)

\* change_task_status that treats done as terminal
Service_change_task_status_DoneTerminal(R, project_id, task_id, new_status_str) ==
    LET i == IndexOfProject(R, project_id)
        k == IF i = 0 THEN 0 ELSE IndexOfTask(R.projects[i], task_id)
    IN  IF new_status_str \notin TaskStatus THEN Raise(ValidationError, R, <<>>)
        ELSE IF k # 0 /\ R.projects[i].tasks[k].status = "done"
             THEN Raise(ValidationError, R, <<>>)
             ELSE Return(Repo_update_task_status(R, project_id, task_id, new_status_str),
                         <<"update_task_status">>)

\* change_task_status that stores the status before validating it
Service_change_task_status_UpdateFirst(R, project_id, task_id, new_status_str) ==
    LET updated == Repo_update_task_status(R, project_id, task_id, new_status_str)
    IN  IF new_status_str \notin TaskStatus
        THEN Raise(ValidationError, updated.repo, <<"update_task_status">>)
        ELSE Return(updated, <<"update_task_status">>)

Service_change_task_status(R, project_id, task_id, new_status_str) ==
    IF new_status_str \notin TaskStatus THEN Raise(ValidationError, R, <<>>)
    ELSE Return(Repo_update_task_status(R, project_id, task_id, new_status_str),
                <<"update_task_status">>)

\* the sweep's updates writing no deadline instead of the task's own
RECURSIVE CloseAll_ClearsDeadline(_, _, _)
CloseAll_ClearsDeadline(R, overdue, t) ==
    IF overdue = <<>> THEN R
    ELSE LET task == Head(overdue)
         IN  CloseAll_ClearsDeadline(
                 Repo_update_task(R, task.project_id, task.id, task.title,
                                  task.description, "done", None, Some(t)).repo,
                 Tail(overdue), t)

\* the sweep: every task find_overdue_tasks returned is updated to done with
\* closed_at the current time; the number of tasks closed is returned
RECURSIVE CloseAll(_, _, _)
CloseAll(R, overdue, t) ==
    IF overdue = <<>> THEN R
    ELSE LET task == Head(overdue)
         IN  CloseAll(Repo_update_task(R, task.project_id, task.id, task.title,
                                       task.description, "done", task.deadline,
                                       Some(t)).repo,
                      Tail(overdue), t)

Service_autoclose_overdue_tasks(R, t) ==
    LET overdue == Repo_find_overdue_tasks(R, t).ret
    IN  [err |-> NoError, ret |-> Some(Len(overdue)),
         repo |-> CloseAll(R, overdue, t),
         calls |-> <<"find_overdue_tasks">> \o [k \in 1..Len(overdue) |-> "update_task"]]

-----------------------------------------------------------------------------
(* Inputs *)

LongName == "abcdefghijklmnopqrstuvwxyz01234"
LongDescription ==
    "0123456789012345678901234567890123456789012345678901234567890123456789012345678901234567890123456789012345678901234567890123456789012345678901234567890"

ProjectNames == {"a", "b", "c", LongName}
Descriptions == {"", LongDescription}
NewDescriptions == Descriptions \cup {"d"}

DeadlineTexts ==
    { None,
      Some(<<"2", "0", "2", "0", "-", "0", "1", "-", "0", "1">>),
      Some(<<"2", "0", "2", "5", "-", "0", "1", "-", "0", "1">>),
      Some(<<>>),
      Some(<<"2", "0", "2", "0", "-", "1", "-", "1">>),
      Some(<<"2", "0", "2", "5", "-", "0", "2", "-", "3", "0">>) }

\* <<title, description, deadline text>>
TaskInputs ==
    {<<"t", "", d>> : d \in DeadlineTexts}
        \cup {<<LongName, "", None>>, <<"t", LongDescription, None>>}

StatusTexts == TaskStatus \cup {"finished"}

ProjectIds == 1..next_project_id
TaskIds == 1..(max_tasks + 1)

StartOfClock == Midnight(2025, 1, 1)

-----------------------------------------------------------------------------
(* The state machine *)

Repo == [projects |-> projects, next_project_id |-> next_project_id]

\* no sweep has been started
NoSweep ==
    [pc |-> "idle", snapshot |-> <<>>, reads |-> 0, count |-> 0, moved |-> 0,
     err |-> NoError]

Init ==
    /\ projects = <<>>
    /\ next_project_id = FirstProjectId
    /\ now = StartOfClock
    /\ result = [op |-> "init", args |-> <<>>, err |-> NoError, ret |-> None,
                 calls |-> <<>>]
    /\ steps = 0
    /\ deleted_tasks = {}
    /\ db = EmptyDb
    /\ db_result = [op |-> "init", args |-> <<>>, err |-> NoError, ret |-> None]
    /\ assigned_task_ids = {}
    /\ sweep = NoSweep

\* the tasks stored in a sequence of projects
StoredTasks(ps) ==
    UNION {{ps[i].tasks[k] : k \in 1..Len(ps[i].tasks)} : i \in 1..Len(ps)}

\* the history of task ids once these projects and these rows are stored
Assigned(ps, rows) ==
    assigned_task_ids
        \cup {<<"memory", task.project_id, task.id>> : task \in StoredTasks(ps)}
        \cup {<<"db", task.project_id, task.id>> : task \in rows}

\* an operation with these arguments ended with this outcome
Done(op, args, outcome) ==
    /\ steps < MaxSteps
    /\ steps' = steps + 1
    /\ projects' = outcome.repo.projects
    /\ next_project_id' = outcome.repo.next_project_id
    /\ result' = [op |-> op, args |-> args, err |-> outcome.err,
                  ret |-> outcome.ret, calls |-> outcome.calls]
    /\ now' = now
    /\ deleted_tasks' = deleted_tasks \cup
          {task \in StoredTasks(projects) :
              IndexOfProject(outcome.repo, task.project_id) = 0}
    /\ assigned_task_ids' = Assigned(outcome.repo.projects, db.tasks)
    /\ UNCHANGED <<db, db_result, sweep>>

CreateProject ==
    \E name \in ProjectNames, description \in Descriptions :
        Done("create_project", <<name, description>>,
             Service_create_project(Repo, name, description, now))

AddTaskToProject ==
    \E project_id \in ProjectIds, input \in TaskInputs :
        Done("add_task_to_project", <<project_id>> \o input,
             Service_add_task_to_project(Repo, project_id, input[1], input[2], input[3]))

EditProject ==
    \E project_id \in ProjectIds, name \in ProjectNames, description \in NewDescriptions :
        Done("edit_project", <<project_id, name, description>>,
             Service_edit_project(Repo, project_id, name, description))

DeleteProject ==
    \E project_id \in ProjectIds :
        Done("delete_project", <<project_id>>, Service_delete_project(Repo, project_id))

DeleteTask ==
    \E project_id \in ProjectIds, task_id \in TaskIds :
        Done("delete_task", <<project_id, task_id>>,
             Service_delete_task(Repo, project_id, task_id))

ChangeTaskStatus ==
    \E project_id \in ProjectIds, task_id \in TaskIds, status \in StatusTexts :
        Done("change_task_status", <<project_id, task_id, status>>,
             Service_change_task_status(Repo, project_id, task_id, status))

AutocloseOverdueTasks ==
    Done("autoclose_overdue_tasks", <<>>, Service_autoclose_overdue_tasks(Repo, now))

FindOverdueTasks ==
    Done("find_overdue_tasks", <<>>,
         Return(Repo_find_overdue_tasks(Repo, now), <<"find_overdue_tasks">>))

\* time passes between operations
Tick ==
    /\ steps < MaxSteps
    /\ steps' = steps + 1
    /\ now' = now + 1
    /\ result' = [op |-> "tick", args |-> <<>>, err |-> NoError, ret |-> None,
                  calls |-> <<>>]
    /\ UNCHANGED <<projects, next_project_id, deleted_tasks, db, db_result,
                   assigned_task_ids, sweep>>

Next ==
    \/ CreateProject
    \/ AddTaskToProject
    \/ EditProject
    \/ DeleteProject
    \/ DeleteTask
    \/ ChangeTaskStatus
    \/ AutocloseOverdueTasks
    \/ FindOverdueTasks
    \/ Tick

Spec == Init /\ [][Next]_vars

-----------------------------------------------------------------------------
(* The repository interface.  Every call is made on both repositories,     *)
(* with the arguments the Service would pass: names that no other project  *)
(* holds, and status values of TaskStatus.                                 *)

RepoNames == {"a", "b"}
RepoDescriptions == {"", "d"}
RepoDeadlines == {None, Some(Midnight(2020, 1, 1))}

\* <<new_title, new_description, new_status, new_deadline, new_closed_at>>
UpdateTaskInputs ==
    { <<"t", "", "todo", None, None>>,
      <<"t", "", "todo", Some(Midnight(2020, 1, 1)), None>>,
      <<"u", "d", "doing", None, None>>,
      <<"t", "", "done", Some(Midnight(2020, 1, 1)), Some(now)>> }

\* SqlAlchemyProjectRepository defines no find_overdue_tasks: the method
\* stays the abstract one of IProjectRepository
AbstractMethod == "abstract method"
Sql_find_overdue_tasks(D, t) == SqlOutcome(AbstractMethod, None, D)

\* find_project_by_id that returns a shallow copy: the task list is shared
ReturnedAs_ShallowFind(op) ==
    IF op = "find_project_by_id" THEN "copy"
    ELSE IF op \in {"create_project", "list_projects", "find_project_by_name",
                    "update_project", "create_task", "update_task_status",
                    "update_task", "find_overdue_tasks"}
    THEN "deepcopy"
    ELSE "nothing"

\* how a method of the in-memory repository hands out what it returns:
\* every return statement wraps its value in copy.deepcopy
ReturnedAs(op) ==
    IF op \in {"create_project", "list_projects", "find_project_by_id",
               "find_project_by_name", "update_project", "create_task",
               "update_task_status", "update_task", "find_overdue_tasks"}
    THEN "deepcopy"
    ELSE "nothing"

\* a call with these arguments ended with this outcome on the in-memory
\* repository and with that one on the persistent repository
RepoCall(op, args, outcome, sql_args, sql) ==
    /\ steps < MaxSteps
    /\ steps' = steps + 1
    /\ projects' = outcome.repo.projects
    /\ next_project_id' = outcome.repo.next_project_id
    /\ result' = [op |-> op, args |-> args, err |-> outcome.err,
                  ret |-> outcome.ret, calls |-> <<op>>]
    /\ db' = sql.db
    /\ db_result' = [op |-> op, args |-> sql_args, err |-> sql.err,
                     ret |-> sql.ret]
    /\ now' = now
    /\ deleted_tasks' = deleted_tasks \cup
          {task \in StoredTasks(projects) :
              IndexOfProject(outcome.repo, task.project_id) = 0}
    /\ assigned_task_ids' = Assigned(outcome.repo.projects, sql.db.tasks)

\* a call made by the interactive program, not by the sweep
RepoDone(op, args, outcome, sql_args, sql) ==
    RepoCall(op, args, outcome, sql_args, sql) /\ UNCHANGED sweep

RepoCreateProject ==
    \E name \in RepoNames :
        /\ \A i \in 1..Len(projects) : projects[i].name # name
        /\ RepoDone("create_project", <<name, "">>,
                    Repo_create_project(Repo, name, "", now),
                    <<name, "">>,
                    Sql_create_project(db, name, ""))

RepoListProjects ==
    RepoDone("list_projects", <<>>, Repo_list_projects(Repo),
             <<>>, Sql_list_projects(db))

RepoFindProjectById ==
    \E id \in ProjectIds :
        RepoDone("find_project_by_id", <<id>>, Repo_find_project_by_id(Repo, id),
                 <<id>>, Sql_find_project_by_id(db, id))

RepoFindProjectByName ==
    \E name \in RepoNames :
        RepoDone("find_project_by_name", <<name>>,
                 Repo_find_project_by_name(Repo, name),
                 <<name>>, Sql_find_project_by_name(db, name))

RepoUpdateProject ==
    \E id \in ProjectIds, name \in RepoNames, description \in RepoDescriptions :
        /\ \A i \in 1..Len(projects) :
              projects[i].name = name => projects[i].id = id
        /\ RepoDone("update_project", <<id, name, description>>,
                    Repo_update_project(Repo, id, name, description),
                    <<id, name, description>>,
                    Sql_update_project(db, id, name, description))

RepoDeleteProject ==
    \E id \in ProjectIds :
        RepoDone("delete_project", <<id>>, Repo_delete_project(Repo, id),
                 <<id>>, Sql_delete_project(db, id))

RepoCreateTask ==
    \E id \in ProjectIds, deadline \in RepoDeadlines :
        RepoDone("create_task", <<id, "t", "", deadline>>,
                 Repo_create_task(Repo, id, "t", "", deadline),
                 <<id, "t", "", deadline>>,
                 Sql_create_task(db, id, "t", "", deadline))

RepoUpdateTaskStatus ==
    \E id \in ProjectIds, task_id \in TaskIds, status \in TaskStatus :
        RepoDone("update_task_status", <<id, task_id, status>>,
                 Repo_update_task_status(Repo, id, task_id, status),
                 <<id, task_id, status>>,
                 Sql_update_task_status(db, id, task_id, status))

\* the persistent update_task takes no new_closed_at
RepoUpdateTask ==
    \E id \in ProjectIds, task_id \in TaskIds, new \in UpdateTaskInputs :
        RepoDone("update_task", <<id, task_id>> \o new,
                 Repo_update_task(Repo, id, task_id, new[1], new[2], new[3], new[4], new[5]),
                 <<id, task_id>> \o SubSeq(new, 1, 4),
                 Sql_update_task(db, id, task_id, new[1], new[2], new[3], new[4]))

RepoDeleteTask ==
    \E id \in ProjectIds, task_id \in TaskIds :
        RepoDone("delete_task", <<id, task_id>>, Repo_delete_task(Repo, id, task_id),
                 <<id, task_id>>, Sql_delete_task(db, id, task_id))

RepoFindOverdueTasks ==
    RepoDone("find_overdue_tasks", <<>>, Repo_find_overdue_tasks(Repo, now),
             <<>>, Sql_find_overdue_tasks(db, now))

\* the caller changes an object the in-memory repository returned
IsProject(entity) == "name" \in DOMAIN entity

Mutated(entity, change) ==
    IF change = "name" THEN [entity EXCEPT !.name = "m"]
    ELSE IF change = "clear" THEN [entity EXCEPT !.tasks = <<>>]
    ELSE [entity EXCEPT !.title = "m"]

\* the stored projects after that change: an attribute assignment reaches the
\* store when the returned object is the stored one, a change of the task
\* list also when it is a shallow copy of it
StoredAfter(sharing, entity, change) ==
    [i \in 1..Len(projects) |->
        IF change = "name" /\ sharing = "same" /\ projects[i].id = entity.id
        THEN [projects[i] EXCEPT !.name = "m"]
        ELSE IF /\ change = "clear" /\ sharing \in {"same", "copy"}
                /\ projects[i].id = entity.id
        THEN [projects[i] EXCEPT !.tasks = <<>>]
        ELSE IF /\ change = "title" /\ sharing = "same"
                /\ projects[i].id = entity.project_id
        THEN [projects[i] EXCEPT !.tasks =
                 [k \in 1..Len(projects[i].tasks) |->
                     IF projects[i].tasks[k].id = entity.id
                     THEN [projects[i].tasks[k] EXCEPT !.title = "m"]
                     ELSE projects[i].tasks[k]]]
        ELSE projects[i]]

MutateReturned ==
    /\ steps < MaxSteps
    /\ ReturnedAs(result.op) # "nothing"
    /\ result.err = NoError
    /\ \E k \in 1..Len(result.ret), change \in {"name", "clear", "title"} :
          /\ IsProject(result.ret[k]) <=> change \in {"name", "clear"}
          /\ result' = [op |-> "mutate", args |-> <<result.op, k, change>>,
                        err |-> NoError,
                        ret |-> [result.ret EXCEPT ![k] = Mutated(@, change)],
                        calls |-> <<>>]
          /\ projects' = StoredAfter(ReturnedAs(result.op), result.ret[k], change)
    /\ steps' = steps + 1
    /\ assigned_task_ids' = Assigned(projects', db.tasks)
    /\ UNCHANGED <<next_project_id, now, deleted_tasks, db, db_result, sweep>>

RepoNext ==
    \/ RepoCreateProject
    \/ RepoListProjects
    \/ RepoFindProjectById
    \/ RepoFindProjectByName
    \/ RepoUpdateProject
    \/ RepoDeleteProject
    \/ RepoCreateTask
    \/ RepoUpdateTaskStatus
    \/ RepoUpdateTask
    \/ RepoDeleteTask
    \/ RepoFindOverdueTasks
    \/ MutateReturned
    \/ Tick

RepoSpec == Init /\ [][RepoNext]_vars

-----------------------------------------------------------------------------
(* Operations on the tasks of a populated store, with the sweep running as
   a sequence of repository calls between which the interactive program's
   calls may fall *)

MaxTaskSteps == 3

PastDeadline == Some(Midnight(2020, 1, 1))

\* <<project id, task id>> of the calls: the two tasks the in-memory
\* repository holds are <<1, 1>> and <<2, 1>>, the two rows of the database
\* are <<1, 1>> and <<2, 2>>
TaskAddresses == {<<1, 1>>, <<2, 1>>, <<2, 2>>}

\* <<new_title, new_description, new_status, new_deadline, new_closed_at>>
TaskEdits ==
    { <<"u", "d", "doing", None, None>>,
      <<"t", "", "done", PastDeadline, Some(now)>> }

\* the in-memory repository after create_project a, create_project b and one
\* create_task in each project, the first with a past deadline, the second
\* with none
PopulatedMemory ==
    LET R0 == [projects |-> <<>>, next_project_id |-> FirstProjectId]
        R1 == Repo_create_project(R0, "a", "", StartOfClock).repo
        R2 == Repo_create_project(R1, "b", "", StartOfClock).repo
        R3 == Repo_create_task(R2, FirstProjectId, "t", "", PastDeadline).repo
    IN  Repo_create_task(R3, FirstProjectId + 1, "t", "", None).repo

\* the database after the same four calls on the persistent repository
PopulatedDb ==
    LET D1 == Sql_create_project(EmptyDb, "a", "").db
        D2 == Sql_create_project(D1, "b", "").db
        D3 == Sql_create_task(D2, FirstRowId, "t", "", PastDeadline).db
    IN  Sql_create_task(D3, FirstRowId + 1, "t", "", None).db

TaskInit ==
    /\ projects = PopulatedMemory.projects
    /\ next_project_id = PopulatedMemory.next_project_id
    /\ now = StartOfClock
    /\ result = [op |-> "init", args |-> <<>>, err |-> NoError, ret |-> None,
                 calls |-> <<>>]
    /\ steps = 0
    /\ deleted_tasks = {}
    /\ db = PopulatedDb
    /\ db_result = [op |-> "init", args |-> <<>>, err |-> NoError, ret |-> None]
    /\ assigned_task_ids =
          {<<"memory", task.project_id, task.id>> :
              task \in StoredTasks(PopulatedMemory.projects)}
          \cup {<<"db", task.project_id, task.id>> : task \in PopulatedDb.tasks}
    /\ sweep = NoSweep

\* one iteration of the sweep's loop: the task is updated to done, closed at
\* t, its other fields written back as the snapshot holds them
CloseOne(R, task, t) ==
    Repo_update_task(R, task.project_id, task.id, task.title, task.description,
                     "done", task.deadline, Some(t))

\* the sweep reads the overdue tasks, once; with none to close it returns 0
SweepStart ==
    /\ sweep.pc = "idle"
    /\ steps < MaxTaskSteps
    /\ RepoCall("find_overdue_tasks", <<>>, Repo_find_overdue_tasks(Repo, now),
                <<>>, Sql_find_overdue_tasks(db, now))
    /\ LET overdue == Repo_find_overdue_tasks(Repo, now).ret
       IN  sweep' = [pc |-> IF overdue = <<>> THEN "returned" ELSE "closing",
                     snapshot |-> overdue, reads |-> sweep.reads + 1,
                     count |-> 0, moved |-> 0, err |-> NoError]

\* the sweep closes the next task of its snapshot; an error raised by
\* update_task ends the sweep, which then returns no count; after the last
\* task the sweep returns the number of tasks it closed
SweepStep ==
    /\ sweep.pc = "closing"
    /\ steps < MaxTaskSteps
    /\ steps' = steps + 1
    /\ LET task == Head(sweep.snapshot)
           closed == CloseOne(Repo, task, now)
           was_open == \E stored \in StoredTasks(projects) :
                          /\ stored.project_id = task.project_id
                          /\ stored.id = task.id
                          /\ stored.status # "done"
       IN  /\ projects' = closed.repo.projects
           /\ next_project_id' = closed.repo.next_project_id
           /\ result' = [op |-> "update_task",
                         args |-> <<task.project_id, task.id, task.title,
                                    task.description, "done", task.deadline,
                                    Some(now)>>,
                         err |-> closed.err, ret |-> closed.ret,
                         calls |-> <<"update_task">>]
           /\ sweep' = IF closed.err # NoError
                       THEN [sweep EXCEPT !.pc = "raised", !.err = closed.err]
                       ELSE [sweep EXCEPT
                                !.pc = IF Tail(sweep.snapshot) = <<>>
                                       THEN "returned" ELSE "closing",
                                !.snapshot = Tail(@),
                                !.count = @ + 1,
                                !.moved = @ + (IF was_open THEN 1 ELSE 0)]
    /\ assigned_task_ids' = Assigned(projects', db.tasks)
    /\ UNCHANGED <<now, deleted_tasks, db, db_result>>

\* the calls the interactive program makes meanwhile, as change_task_status,
\* edit_task, delete_task and delete_project delegate them
TaskUpdateTaskStatus ==
    /\ steps < MaxTaskSteps
    /\ \E address \in TaskAddresses, status \in {"doing", "done"} :
          RepoDone("update_task_status", address \o <<status>>,
                   Repo_update_task_status(Repo, address[1], address[2], status),
                   address \o <<status>>,
                   Sql_update_task_status(db, address[1], address[2], status))

TaskUpdateTask ==
    /\ steps < MaxTaskSteps
    /\ \E address \in TaskAddresses, new \in TaskEdits :
          RepoDone("update_task", address \o new,
                   Repo_update_task(Repo, address[1], address[2],
                                    new[1], new[2], new[3], new[4], new[5]),
                   address \o SubSeq(new, 1, 4),
                   Sql_update_task(db, address[1], address[2],
                                   new[1], new[2], new[3], new[4]))

TaskDeleteTask ==
    /\ steps < MaxTaskSteps
    /\ \E address \in TaskAddresses :
          RepoDone("delete_task", address,
                   Repo_delete_task(Repo, address[1], address[2]),
                   address, Sql_delete_task(db, address[1], address[2]))

TaskDeleteProject ==
    /\ steps < MaxTaskSteps
    /\ \E id \in {FirstProjectId, FirstProjectId + 1} :
          RepoDone("delete_project", <<id>>, Repo_delete_project(Repo, id),
                   <<id>>, Sql_delete_project(db, id))

TaskNext ==
    \/ TaskUpdateTaskStatus
    \/ TaskUpdateTask
    \/ TaskDeleteTask
    \/ TaskDeleteProject
    \/ SweepStart
    \/ SweepStep

TaskSpec == TaskInit /\ [][TaskNext]_vars

-----------------------------------------------------------------------------
(* Vocabulary of the properties *)

\* the last step was this operation (every operation is a step: steps grows)
Called(op) == result'.op = op
Arg(i) == result'.args[i]

RepoUnchanged == UNCHANGED <<projects, next_project_id>>

NameHeld(name) == \E i \in 1..Len(projects) : projects[i].name = name
NameHeldByOther(name, id) ==
    \E i \in 1..Len(projects) : projects[i].name = name /\ projects[i].id # id
Exists(id) == \E i \in 1..Len(projects) : projects[i].id = id
ProjectWithId(id) == projects[CHOOSE i \in 1..Len(projects) : projects[i].id = id]

ValidLengths(name, description) ==
    Len(name) <= NameMaxLen /\ Len(description) <= DescriptionMaxLen

-----------------------------------------------------------------------------
(* C1 *)

NamesUnique ==
    \A i, j \in 1..Len(projects) : i # j => projects[i].name # projects[j].name

\* C1 as stated, read for calls whose arguments are otherwise well formed
\* (valid lengths, an existing project to edit): no two stored projects
\* share a name; create_project with a name a stored project holds fails with
\* DuplicateProjectName, and so does edit_project to a name held by a project
\* with a different id.
C1_AsStated ==
    /\ []NamesUnique
    /\ [][/\ Called("create_project") /\ NameHeld(Arg(1))
             /\ ValidLengths(Arg(1), Arg(2))
                => result'.err = DuplicateProjectNameError
          /\ Called("edit_project") /\ NameHeldByOther(Arg(2), Arg(1))
             /\ Exists(Arg(1)) /\ ValidLengths(Arg(2), Arg(3))
                => result'.err = DuplicateProjectNameError]_vars

\* C1 amended: no two stored projects share a name; create_project with a
\* name a stored project holds always fails and stores nothing: with
\* DuplicateProjectName when the lengths are valid and fewer than
\* max_projects projects are stored, with ProjectLimitExceeded when the
\* lengths are valid and the limit is reached; edit_project to a name held by
\* a project with a different id always fails and changes nothing, with
\* DuplicateProjectName when the edited project exists and the lengths are
\* valid.
C1_NoDuplicateNames ==
    /\ []NamesUnique
    /\ [][/\ Called("create_project") /\ NameHeld(Arg(1))
                => /\ result'.err # NoError /\ RepoUnchanged
                   /\ (ValidLengths(Arg(1), Arg(2)) /\ Len(projects) < max_projects
                         => result'.err = DuplicateProjectNameError)
                   /\ (ValidLengths(Arg(1), Arg(2)) /\ Len(projects) >= max_projects
                         => result'.err = ProjectLimitExceededError)
          /\ Called("edit_project") /\ NameHeldByOther(Arg(2), Arg(1))
                => /\ result'.err # NoError /\ RepoUnchanged
                   /\ (Exists(Arg(1)) /\ ValidLengths(Arg(2), Arg(3))
                         => result'.err = DuplicateProjectNameError)]_vars

\* an edit to the name of the other stored project was refused as a duplicate
C1_Witness ==
    /\ result.op = "edit_project" /\ result.err = DuplicateProjectNameError
    /\ Len(projects) = 2
    /\ \E i \in 1..2 : projects[i].name = result.args[2] /\ projects[i].id # result.args[1]

-----------------------------------------------------------------------------
(* C2 *)

\* C2 as stated: never more than max_projects projects are stored;
\* create_project fails with ProjectLimitExceeded whenever max_projects
\* projects are stored, and the creation that brings the count to
\* max_projects succeeds.
C2_AsStated ==
    /\ [](Len(projects) <= max_projects)
    /\ [][Called("create_project") =>
            /\ Len(projects) >= max_projects
                  => result'.err = ProjectLimitExceededError
            /\ (/\ Len(projects) = max_projects - 1
                /\ ValidLengths(Arg(1), Arg(2)) /\ ~NameHeld(Arg(1)))
                  => result'.err = NoError /\ Len(projects') = max_projects]_vars

\* C2 amended: never more than max_projects projects are stored;
\* create_project always fails and stores nothing when max_projects projects
\* are stored, with ProjectLimitExceeded when the name and description have
\* valid lengths (ValidationError otherwise); the creation that brings the
\* count to max_projects succeeds.
C2_ProjectLimit ==
    /\ [](Len(projects) <= max_projects)
    /\ [][Called("create_project") =>
            /\ Len(projects) >= max_projects
                  => /\ result'.err # NoError /\ RepoUnchanged
                     /\ result'.err = IF ValidLengths(Arg(1), Arg(2))
                                      THEN ProjectLimitExceededError
                                      ELSE ValidationError
            /\ (/\ Len(projects) = max_projects - 1
                /\ ValidLengths(Arg(1), Arg(2)) /\ ~NameHeld(Arg(1)))
                  => result'.err = NoError /\ Len(projects') = max_projects]_vars

\* with max_projects projects stored, a creation under a fresh, valid name
\* was refused
C2_Witness ==
    /\ result.op = "create_project" /\ result.err = ProjectLimitExceededError
    /\ Len(projects) = max_projects
    /\ ~NameHeld(result.args[1])

-----------------------------------------------------------------------------
(* C3 *)

ValidTaskInput(title, description, deadline_str) ==
    /\ Len(title) <= NameMaxLen /\ Len(description) <= DescriptionMaxLen
    /\ (deadline_str = None \/ strptime(deadline_str[1]) # None)

\* C3: every stored project holds at most max_tasks tasks;
\* add_task_to_project fails with TaskLimitExceeded whenever the target
\* project holds max_tasks tasks, and the addition that brings it to
\* max_tasks succeeds.
C3_TaskLimit ==
    /\ [](\A i \in 1..Len(projects) : Len(projects[i].tasks) <= max_tasks)
    /\ [][Called("add_task_to_project") /\ Exists(Arg(1)) =>
            /\ Len(ProjectWithId(Arg(1)).tasks) >= max_tasks
                  => result'.err = TaskLimitExceededError /\ RepoUnchanged
            /\ (/\ Len(ProjectWithId(Arg(1)).tasks) = max_tasks - 1
                /\ ValidTaskInput(Arg(2), Arg(3), Arg(4)))
                  => /\ result'.err = NoError
                     /\ \E i \in 1..Len(projects') :
                           /\ projects'[i].id = Arg(1)
                           /\ Len(projects'[i].tasks) = max_tasks]_vars

\* an addition to a project holding max_tasks tasks was refused
C3_Witness ==
    /\ result.op = "add_task_to_project" /\ result.err = TaskLimitExceededError
    /\ \E i \in 1..Len(projects) :
          projects[i].id = result.args[1] /\ Len(projects[i].tasks) = max_tasks

-----------------------------------------------------------------------------
(* C4 *)

\* the same task: task ids are per project
SameTask(a, b) == a.project_id = b.project_id /\ a.id = b.id

\* C4: once delete_project(id) has succeeded, the project and every task it
\* held are gone from the stored state and stay gone, and no later
\* find_overdue_tasks returns one of them, whatever operations follow.
C4_DeleteCascades ==
    /\ [](\A gone \in deleted_tasks :
            /\ \A task \in StoredTasks(projects) : ~SameTask(task, gone)
            /\ result.op = "find_overdue_tasks"
                  => \A k \in 1..Len(result.ret) : ~SameTask(result.ret[k], gone))
    /\ [][Called("delete_project") /\ result'.err = NoError =>
            /\ Exists(Arg(1))
            /\ \A i \in 1..Len(projects') : projects'[i].id # Arg(1)
            /\ \A task \in StoredTasks(projects') : task.project_id # Arg(1)
            /\ \A task \in StoredTasks(projects) :
                  task.project_id = Arg(1) => task \in deleted_tasks']_vars

\* a project holding a task that was overdue has been deleted, and
\* find_overdue_tasks was called afterwards
C4_Witness ==
    /\ result.op = "find_overdue_tasks"
    /\ \E gone \in deleted_tasks :
          gone.deadline # None /\ gone.deadline[1] < now /\ gone.status # "done"

-----------------------------------------------------------------------------
(* C5 *)

-----------------------------------------------------------------------------
(* C6 *)

-----------------------------------------------------------------------------
(* C7 *)

\* C7: change_task_status with a status text outside {todo, doing, done}
\* fails with ValidationError and leaves all stored state unchanged, for
\* every project id and task id, existing or not.
C7_InvalidStatusRejected ==
    [][Called("change_task_status") /\ Arg(3) \notin {"todo", "doing", "done"}
          => result'.err = ValidationError /\ RepoUnchanged]_vars

\* an invalid status text was refused for a task that exists
C7_Witness ==
    /\ result.op = "change_task_status" /\ result.err = ValidationError
    /\ result.args[3] \notin {"todo", "doing", "done"}
    /\ \E task \in StoredTasks(projects) :
          task.project_id = result.args[1] /\ task.id = result.args[2]

-----------------------------------------------------------------------------
(* C8 *)

\* C8: create_project with a name longer than 30 characters fails with
\* ValidationError in every state and for every description, without
\* invoking any repository operation.
C8_LongNameRejected ==
    [][Called("create_project") /\ Len(Arg(1)) > 30
          => /\ result'.err = ValidationError
             /\ result'.calls = <<>>
             /\ RepoUnchanged]_vars

\* an over-long name was refused while the project limit was reached
C8_Witness ==
    /\ result.op = "create_project" /\ Len(result.args[1]) > 30
    /\ result.err = ValidationError /\ result.calls = <<>>
    /\ Len(projects) = max_projects

-----------------------------------------------------------------------------
(* C9 *)

ServiceOperations ==
    {"create_project", "add_task_to_project", "edit_project", "delete_project",
     "change_task_status"}

\* C9: whenever a service operation ends in an error, the stored state,
\* the id counters included, is what it was before the call.
C9_NoPartialWrites ==
    [][result'.op \in ServiceOperations /\ result'.err # NoError
          => RepoUnchanged]_vars

\* an addition to an existing project that holds a task was refused for its
\* over-long title
C9_Witness ==
    /\ result.op = "add_task_to_project" /\ result.err = ValidationError
    /\ Len(result.args[2]) > 30
    /\ \E i \in 1..Len(projects) :
          projects[i].id = result.args[1] /\ Len(projects[i].tasks) = 1

-----------------------------------------------------------------------------
(* C10 *)

\* C10: find_overdue_tasks returns exactly the stored tasks, across all
\* projects, whose deadline is set and strictly earlier than the call time
\* and whose status is not done, each once.
C10_FindOverdueExact ==
    result.op = "find_overdue_tasks" =>
        LET expected == {task \in StoredTasks(projects) :
                            /\ task.deadline # None
                            /\ task.deadline[1] < now
                            /\ task.status # "done"}
        IN  /\ {result.ret[k] : k \in 1..Len(result.ret)} = expected
            /\ Len(result.ret) = Cardinality(expected)

\* find_overdue_tasks returned a task and left out a stored one
C10_Witness ==
    /\ result.op = "find_overdue_tasks"
    /\ Len(result.ret) >= 1
    /\ \E task \in StoredTasks(projects) :
          \A k \in 1..Len(result.ret) : result.ret[k] # task

-----------------------------------------------------------------------------
(* C11 *)

\* C11: in every reachable state a stored task has closed_at set if and
\* only if its status is done.
C11_ClosedIffDone ==
    \A task \in StoredTasks(projects) :
        (task.closed_at # None) <=> (task.status = "done")

-----------------------------------------------------------------------------
(* C13 *)

\* a text of the form YYYY-MM-DD that names an existing date
WellFormedDate(s) ==
    /\ Len(s) = 10 /\ s[5] = "-" /\ s[8] = "-"
    /\ \A i \in {1, 2, 3, 4, 6, 7, 9, 10} : IsDigit(s[i])
    /\ Number(SubSeq(s, 6, 7)) \in 1..12
    /\ Number(SubSeq(s, 9, 10)) \in
          1..DaysInMonth(Number(SubSeq(s, 1, 4)), Number(SubSeq(s, 6, 7)))

DateOf(s) ==
    Midnight(Number(SubSeq(s, 1, 4)), Number(SubSeq(s, 6, 7)), Number(SubSeq(s, 9, 10)))

\* the task that a successful add_task_to_project returned is the last task
\* of its project and has this deadline
CreatedWithDeadline(deadline) ==
    /\ result'.err = NoError
    /\ result'.ret[1].deadline = deadline
    /\ \E i \in 1..Len(projects') :
          /\ projects'[i].id = Arg(1)
          /\ Len(projects'[i].tasks) = Len(ProjectWithId(Arg(1)).tasks) + 1
          /\ projects'[i].tasks[Len(projects'[i].tasks)] = result'.ret[1]

\* C13: add_task_to_project (on an existing project below its task limit,
\* with a title and description of valid length) accepts both an absent and
\* an empty deadline text and creates the task with no deadline; a
\* well-formed YYYY-MM-DD text yields that date as deadline; any other text
\* fails with ValidationError and creates no task.
C13_DeadlineTexts ==
    [][(/\ Called("add_task_to_project") /\ Exists(Arg(1))
        /\ Len(ProjectWithId(Arg(1)).tasks) < max_tasks
        /\ Len(Arg(2)) <= NameMaxLen /\ Len(Arg(3)) <= DescriptionMaxLen)
          => IF Arg(4) = None \/ Arg(4) = Some(<<>>)
             THEN CreatedWithDeadline(None)
             ELSE IF WellFormedDate(Arg(4)[1])
                  THEN CreatedWithDeadline(Some(DateOf(Arg(4)[1])))
                  ELSE result'.err = ValidationError /\ RepoUnchanged]_vars

-----------------------------------------------------------------------------
(* C15 *)

StoredTask(ps, project_id, task_id) ==
    CHOOSE task \in StoredTasks(ps) : task.project_id = project_id /\ task.id = task_id

HasTask(ps, project_id, task_id) ==
    \E task \in StoredTasks(ps) : task.project_id = project_id /\ task.id = task_id

\* C15: for a stored task in any of the states todo, doing, done,
\* change_task_status to any of the three values, the current one included,
\* succeeds and stores that value; a done task, closed manually or by the
\* sweep, can be moved to todo or doing.
C15_EveryTransition ==
    [][(/\ Called("change_task_status")
        /\ HasTask(projects, Arg(1), Arg(2))
        /\ Arg(3) \in TaskStatus)
          => /\ result'.err = NoError
             /\ HasTask(projects', Arg(1), Arg(2))
             /\ StoredTask(projects', Arg(1), Arg(2)).status = Arg(3)
             /\ result'.ret[1].status = Arg(3)]_vars

\* a task that the sweep had closed was moved back to todo
C15_Witness ==
    /\ result.op = "change_task_status" /\ result.err = NoError
    /\ result.args[3] = "todo"
    /\ HasTask(projects, result.args[1], result.args[2])
    /\ StoredTask(projects, result.args[1], result.args[2]).closed_at # None
    /\ StoredTask(projects, result.args[1], result.args[2]).status = "todo"

-----------------------------------------------------------------------------
(* C18 *)

ProjectIdsOf(ps) == [i \in 1..Len(ps) |-> ps[i].id]

\* C18: project ids are fresh.  The id counter starts at 1, never decreases
\* and moves exactly when create_project succeeds, so its value is one more
\* than the number of ids assigned so far and every id assigned before is
\* below it (the stored ids and the ids of deleted projects alike); a
\* successful create_project returns the counter's value, which is 1 for
\* the first project ever created and is greater than every stored id;
\* a successful edit_project returns the id it was given and leaves the ids
\* of the stored projects as they were.
C18_FreshProjectIds ==
    /\ [](/\ \A i \in 1..Len(projects) : projects[i].id \in 1..(next_project_id - 1)
          /\ \A gone \in deleted_tasks : gone.project_id \in 1..(next_project_id - 1)
          /\ \A i, j \in 1..Len(projects) : i # j => projects[i].id # projects[j].id)
    /\ [][/\ next_project_id' >= next_project_id
          /\ next_project_id' # next_project_id
                <=> Called("create_project") /\ result'.err = NoError
          /\ Called("create_project") /\ result'.err = NoError
                => /\ result'.ret[1].id = next_project_id
                   /\ next_project_id' = next_project_id + 1
                   /\ (next_project_id = 1 => result'.ret[1].id = 1)
                   /\ \A i \in 1..Len(projects) : projects[i].id < result'.ret[1].id
                   /\ \A gone \in deleted_tasks : gone.project_id < result'.ret[1].id
                   /\ \E i \in 1..Len(projects') : projects'[i] = result'.ret[1]
          /\ Called("edit_project") /\ result'.err = NoError
                => /\ result'.ret[1].id = Arg(1)
                   /\ ProjectIdsOf(projects') = ProjectIdsOf(projects)]_vars

\* a project was created after project 1, which held a task, was deleted: it
\* is the only stored project and its id is 2
C18_Witness ==
    /\ result.op = "create_project" /\ result.err = NoError
    /\ result.ret[1].id = 2
    /\ ProjectIdsOf(projects) = <<2>>
    /\ \E gone \in deleted_tasks : gone.project_id = 1

-----------------------------------------------------------------------------
(* C12 *)

-----------------------------------------------------------------------------
(* C14 *)

\* C14: in the in-memory repository, a change the caller makes to a value
\* returned by create_project, list_projects, find_project_by_id,
\* find_project_by_name, update_project, create_task, update_task_status,
\* update_task or find_overdue_tasks (an attribute of a project or of a
\* task, or the task list of a project) leaves the stored state as it was,
\* and with it what list_projects, find_project_by_id and
\* find_overdue_tasks return afterwards.
C14_ReturnedValuesIndependent ==
    [][Called("mutate")
          => /\ RepoUnchanged
             /\ Repo_list_projects(Repo').ret = Repo_list_projects(Repo).ret
             /\ Repo_find_overdue_tasks(Repo', now').ret
                   = Repo_find_overdue_tasks(Repo, now).ret
             /\ \A id \in ProjectIds :
                   Repo_find_project_by_id(Repo', id).ret
                      = Repo_find_project_by_id(Repo, id).ret]_vars

\* the caller emptied the task list of a project that find_project_by_id
\* returned, and the stored project still holds its task
C14_Witness ==
    /\ result.op = "mutate"
    /\ result.args = <<"find_project_by_id", 1, "clear">>
    /\ result.ret[1].tasks = <<>>
    /\ Exists(result.ret[1].id)
    /\ Len(ProjectWithId(result.ret[1].id).tasks) = 1

-----------------------------------------------------------------------------
(* C16 *)

\* each element of the set occurs exactly once in the sequence
ExactlyOnce(listing, stored) ==
    /\ {listing[k] : k \in 1..Len(listing)} = stored
    /\ Len(listing) = Cardinality(stored)

IdsOf(listing) == [k \in 1..Len(listing) |-> listing[k].id]

\* C16: list_projects returns every stored project exactly once, in
\* non-decreasing order of creation time, in the in-memory repository and
\* in the persistent one, after any sequence of calls; update_project
\* leaves the order in which list_projects returns the projects as it was.
C16_ListedInCreationOrder ==
    /\ [](result.op = "list_projects"
            => /\ ExactlyOnce(result.ret, {projects[i] : i \in 1..Len(projects)})
               /\ Len(result.ret) = Len(projects)
               /\ \A j, k \in 1..Len(result.ret) :
                     j < k => result.ret[j].creation_date <= result.ret[k].creation_date)
    /\ [](db_result.op = "list_projects"
            => /\ ExactlyOnce(db_result.ret, {Loaded(db, row) : row \in db.projects})
               /\ \A j, k \in 1..Len(db_result.ret) :
                     j < k => db_result.ret[j].created_at <= db_result.ret[k].created_at)
    /\ [][Called("update_project")
            => /\ IdsOf(Repo_list_projects(Repo').ret) = IdsOf(Repo_list_projects(Repo).ret)
               /\ IdsOf(Sql_list_projects(db').ret) = IdsOf(Sql_list_projects(db).ret)]_vars

\* list_projects returned two projects in the order of their creation, the
\* first of them edited since the second was created or before
C16_Witness ==
    /\ result.op = "list_projects" /\ db_result.op = "list_projects"
    /\ IdsOf(result.ret) = <<1, 2>> /\ IdsOf(db_result.ret) = <<1, 2>>
    /\ result.ret[1].description = "d" /\ db_result.ret[1].description = "d"

-----------------------------------------------------------------------------
(* C17 *)

TaskMethods == {"update_task_status", "update_task", "delete_task"}
ProjectMethods == {"create_task", "update_project", "delete_project", "find_project_by_id"}

\* C17: in both repositories update_task_status, update_task and
\* delete_task fail with EntityDoesNotExistError when the project id is
\* absent or the project holds no task with the given id (also when a task
\* with that id exists in another project); create_task, update_project,
\* delete_project and find_project_by_id fail with it when the project is
\* absent; in every such case the stored state is unchanged.
C17_NotFound ==
    [][/\ (result'.op \in TaskMethods /\ ~HasTask(projects, Arg(1), Arg(2)))
             => result'.err = EntityDoesNotExistError /\ RepoUnchanged
       /\ (result'.op \in ProjectMethods /\ ~Exists(Arg(1)))
             => result'.err = EntityDoesNotExistError /\ RepoUnchanged
       /\ (result'.op \in TaskMethods
             /\ ~HasTaskRow(db, db_result'.args[1], db_result'.args[2]))
             => db_result'.err = EntityDoesNotExistError /\ db' = db
       /\ (result'.op \in ProjectMethods
             /\ ~HasProjectRow(db, db_result'.args[1]))
             => db_result'.err = EntityDoesNotExistError /\ db' = db]_vars

\* update_task_status was refused by both repositories for a task id that
\* the given project does not hold and another project does
C17_Witness ==
    /\ result.op = "update_task_status" /\ result.err = EntityDoesNotExistError
    /\ db_result.op = "update_task_status" /\ db_result.err = EntityDoesNotExistError
    /\ Exists(result.args[1]) /\ HasProjectRow(db, result.args[1])
    /\ \E task \in StoredTasks(projects) :
          task.id = result.args[2] /\ task.project_id # result.args[1]
    /\ \E task \in db.tasks :
          task.id = result.args[2] /\ task.project_id # result.args[1]

-----------------------------------------------------------------------------
(* C19 *)

\* within one project no two stored tasks share an id
DistinctTaskIds ==
    /\ \A i \in 1..Len(projects) : \A j, k \in 1..Len(projects[i].tasks) :
          j # k => projects[i].tasks[j].id # projects[i].tasks[k].id
    /\ \A a, b \in db.tasks :
          a # b /\ a.project_id = b.project_id => a.id # b.id

\* no task of this project was ever stored in this repository
NoTaskYet(repository, project_id) ==
    \A entry \in assigned_task_ids :
        ~(entry[1] = repository /\ entry[2] = project_id)

\* create_task gives an id that no task of the same project ever had
NeverReassigned ==
    Called("create_task") /\ result'.err = NoError
        => /\ <<"memory", Arg(1), result'.ret[1].id>> \notin assigned_task_ids
           /\ <<"db", Arg(1), db_result'.ret[1].id>> \notin assigned_task_ids

\* C19 as stated, for both repositories: within any one project the task
\* ids are pairwise distinct in every reachable state, the first task added
\* to a new project gets id 1, and a task id is never reassigned to a new
\* task of the same project after the original task is deleted.
C19_AsStated ==
    /\ []DistinctTaskIds
    /\ [][/\ NeverReassigned
          /\ Called("create_task") /\ result'.err = NoError
                => /\ NoTaskYet("memory", Arg(1)) => result'.ret[1].id = 1
                   /\ NoTaskYet("db", Arg(1)) => db_result'.ret[1].id = 1]_vars

\* C19 amended: within any one project the task ids are pairwise distinct
\* in every reachable state and a task id is never reassigned to a new
\* task of the same project, in both repositories.  In the in-memory
\* repository, whose counter is per project, the first task added to a
\* project gets id 1.  In the persistent repository, whose ids come from
\* one sequence for all projects, only the first task ever created gets id
\* 1, and a new task's id is greater than the id of every task ever stored
\* in any project.
C19_TaskIds ==
    /\ []DistinctTaskIds
    /\ [][/\ NeverReassigned
          /\ Called("create_task") /\ result'.err = NoError
                => /\ NoTaskYet("memory", Arg(1)) => result'.ret[1].id = 1
                   /\ (\A entry \in assigned_task_ids : entry[1] # "db")
                         => db_result'.ret[1].id = 1
                   /\ \A entry \in assigned_task_ids :
                         entry[1] = "db" => entry[3] < db_result'.ret[1].id]_vars

\* a task was added to a project whose only task, task 1, had been deleted:
\* it is the project's only task and has id 2 in both repositories
C19_Witness ==
    /\ result.op = "create_task" /\ result.err = NoError
    /\ result.ret[1].id = 2 /\ db_result.ret[1].id = 2
    /\ Len(ProjectWithId(result.args[1]).tasks) = 1
    /\ <<"memory", result.args[1], 1>> \in assigned_task_ids
    /\ <<"db", result.args[1], 1>> \in assigned_task_ids

-----------------------------------------------------------------------------
(* C20 *)

\* the last call was a successful find_project_by_id (on both repositories)
\* and this call is op on the project it returned
ReadThen(op) ==
    /\ result.op = "find_project_by_id" /\ result.err = NoError
    /\ db_result.op = "find_project_by_id" /\ db_result.err = NoError
    /\ Called(op)
    /\ Arg(1) = result.ret[1].id

\* the task with this id in what find_project_by_id returned
ReadTask(task_id) ==
    result.ret[1].tasks[CHOOSE k \in 1..Len(result.ret[1].tasks) :
                            result.ret[1].tasks[k].id = task_id]
ReadTaskRow(task_id) ==
    CHOOSE task \in db_result.ret[1].tasks : task.id = task_id

\* the update returned this entity and left the stored state as it was
SameInMemory(entity) ==
    result'.err = NoError /\ result'.ret = Some(entity) /\ RepoUnchanged
SameInDb(entity) ==
    /\ db_result'.err = NoError /\ db_result'.ret = Some(entity)
    /\ db'.projects = db.projects /\ db'.tasks = db.tasks

\* C20: round trip.  Reading a project with find_project_by_id and
\* immediately passing its unchanged name and description to
\* update_project, or the unchanged title, description, status, deadline
\* (and, in memory, closed_at) of one of its tasks to update_task, or the
\* task's unchanged status to update_task_status, returns an entity equal to
\* the one read and leaves the stored projects and tasks unchanged, in both
\* repositories.
C20_RoundTrip ==
    [][/\ (ReadThen("update_project")
             /\ Arg(2) = result.ret[1].name /\ Arg(3) = result.ret[1].description)
          => SameInMemory(result.ret[1]) /\ SameInDb(db_result.ret[1])
       /\ (ReadThen("update_task")
             /\ \E k \in 1..Len(result.ret[1].tasks) :
                   /\ result.ret[1].tasks[k].id = Arg(2)
                   /\ result.ret[1].tasks[k].title = Arg(3)
                   /\ result.ret[1].tasks[k].description = Arg(4)
                   /\ result.ret[1].tasks[k].status = Arg(5)
                   /\ result.ret[1].tasks[k].deadline = Arg(6)
                   /\ result.ret[1].tasks[k].closed_at = Arg(7))
          => SameInMemory(ReadTask(Arg(2)))
       /\ (ReadThen("update_task")
             /\ \E task \in db_result.ret[1].tasks :
                   /\ task.id = Arg(2)
                   /\ task.title = Arg(3)
                   /\ task.description = Arg(4)
                   /\ task.status = Arg(5)
                   /\ task.deadline = Arg(6))
          => SameInDb(ReadTaskRow(Arg(2)))
       /\ (ReadThen("update_task_status")
             /\ \E k \in 1..Len(result.ret[1].tasks) :
                   /\ result.ret[1].tasks[k].id = Arg(2)
                   /\ result.ret[1].tasks[k].status = Arg(3))
          => SameInMemory(ReadTask(Arg(2)))
       /\ (ReadThen("update_task_status")
             /\ \E task \in db_result.ret[1].tasks :
                   task.id = Arg(2) /\ task.status = Arg(3))
          => SameInDb(ReadTaskRow(Arg(2)))]_vars

\* update_task was given the fields of a task that has had them since its
\* creation: of the four calls made, the creations of the project and of
\* the task and this update are the only ones that wrote
C20_Witness ==
    /\ result.op = "update_task" /\ result.err = NoError
    /\ db_result.op = "update_task" /\ db_result.err = NoError
    /\ steps = 4 /\ db.txn = 4 /\ now = StartOfClock
    /\ Len(projects) = 1 /\ Len(projects[1].tasks) = 1
    /\ projects[1].tasks[1] = result.ret[1]
    /\ SubSeq(result.args, 3, 7)
          = <<"t", "", "todo", Some(Midnight(2020, 1, 1)), None>>

-----------------------------------------------------------------------------
(* C25 *)

\* C25: create_project reports its failures in a fixed precedence: a name over
\* 30 or a description over 150 characters gives ValidationError, even when
\* max_projects projects are stored or the name is held; otherwise a reached
\* limit gives ProjectLimitExceeded, even when the name is held;
\* DuplicateProjectName is reported only when the lengths are valid and the
\* limit is not reached (and then exactly when the name is held).
C25_FailurePrecedence ==
    [][Called("create_project") =>
         /\ result'.err =
               IF ~ValidLengths(Arg(1), Arg(2)) THEN ValidationError
               ELSE IF Len(projects) >= max_projects THEN ProjectLimitExceededError
               ELSE IF NameHeld(Arg(1)) THEN DuplicateProjectNameError
               ELSE NoError
         /\ result'.err = DuplicateProjectNameError
               => /\ ValidLengths(Arg(1), Arg(2))
                  /\ Len(projects) < max_projects]_vars

\* with max_projects projects stored, a creation under a held name was
\* refused for the reached limit
C25_Witness ==
    /\ result.op = "create_project" /\ result.err = ProjectLimitExceededError
    /\ Len(projects) = max_projects
    /\ NameHeld(result.args[1])

-----------------------------------------------------------------------------
(* C26 *)

IndexOfId(id) == CHOOSE i \in 1..Len(projects) : projects[i].id = id

\* C26: edit_project checks existence before anything else: an absent id gives
\* EntityDoesNotExistError whatever the new name and description (over-long,
\* held by another project) and changes nothing; editing a stored project
\* under its own current name, with a description of valid length, succeeds
\* and changes only that project's description; every successful edit leaves
\* the number and order of the projects, and each project's id, creation time
\* and tasks (and task-id counter), and the project-id counter as they were.
C26_EditProject ==
    [][Called("edit_project") =>
         /\ ~Exists(Arg(1))
               => result'.err = EntityDoesNotExistError /\ RepoUnchanged
         /\ (/\ Exists(Arg(1))
             /\ Arg(2) = ProjectWithId(Arg(1)).name
             /\ Len(Arg(3)) <= DescriptionMaxLen)
               => /\ result'.err = NoError
                  /\ projects' = [projects EXCEPT ![IndexOfId(Arg(1))].description = Arg(3)]
         /\ result'.err = NoError
               => /\ next_project_id' = next_project_id
                  /\ Len(projects') = Len(projects)
                  /\ \A i \in 1..Len(projects) :
                        /\ projects'[i].id = projects[i].id
                        /\ projects'[i].creation_date = projects[i].creation_date
                        /\ projects'[i].tasks = projects[i].tasks
                        /\ projects'[i].next_task_id = projects[i].next_task_id
                        /\ projects[i].id # Arg(1) => projects'[i] = projects[i]]_vars

\* with a project stored, an edit addressed to an absent id under an over-long
\* new name was refused for the absent id
C26_Witness ==
    /\ result.op = "edit_project" /\ result.err = EntityDoesNotExistError
    /\ ~Exists(result.args[1])
    /\ Len(result.args[2]) > NameMaxLen
    /\ projects # <<>>

-----------------------------------------------------------------------------
(* C23 *)

\* a task the sweep finds overdue at the time t of its invocation
OverdueAt(task, t) ==
    task.deadline # None /\ task.deadline[1] < t /\ task.status # "done"

\* C23: autoclose_overdue_tasks changes nothing but the status and closed_at
\* of the tasks that were overdue when it was invoked: those become done,
\* closed now, with every other field kept; a task with no deadline, with a
\* deadline not yet past or already done keeps all its fields, closed_at
\* included; no task's status becomes todo or doing; no task or project is
\* created or deleted, and the projects' own fields, their task-id counters
\* and the project-id counter are unchanged.
C23_AutocloseFrame ==
    [][Called("autoclose_overdue_tasks") =>
         /\ next_project_id' = next_project_id
         /\ deleted_tasks' = deleted_tasks
         /\ Len(projects') = Len(projects)
         /\ \A i \in 1..Len(projects) :
               /\ projects'[i] = [projects[i] EXCEPT !.tasks = projects'[i].tasks]
               /\ Len(projects'[i].tasks) = Len(projects[i].tasks)
               /\ \A k \in 1..Len(projects[i].tasks) :
                     LET old == projects[i].tasks[k]
                         new == projects'[i].tasks[k]
                     IN  /\ new = IF OverdueAt(old, now)
                                  THEN [old EXCEPT !.status = "done",
                                                   !.closed_at = Some(now)]
                                  ELSE old
                         /\ new.status # old.status => new.status = "done"]_vars

\* the sweep closed the overdue task of a project and left the project's
\* other task, whose deadline is not past, as it was created
C23_Witness ==
    /\ result.op = "autoclose_overdue_tasks" /\ result.ret = Some(1)
    /\ Len(projects) = 1 /\ Len(projects[1].tasks) = 2
    /\ \E k, m \in 1..2 :
          /\ projects[1].tasks[k].status = "done"
          /\ projects[1].tasks[k].closed_at = Some(now)
          /\ projects[1].tasks[k].deadline # None
          /\ projects[1].tasks[k].deadline[1] < now
          /\ projects[1].tasks[m].status = "todo"
          /\ projects[1].tasks[m].closed_at = None
          /\ projects[1].tasks[m].deadline # None
          /\ projects[1].tasks[m].deadline[1] >= now

-----------------------------------------------------------------------------
(* C22 *)

\* C22: when the calls of the interactive program (update_task_status,
\* update_task, delete_task, delete_project) fall between the calls of the
\* sweep, the sweep still ends by returning a count, having read the overdue
\* tasks exactly once, and the count it returns is the number of tasks it
\* moved to done.
C22_SweepCountExact ==
    /\ sweep.pc # "raised"
    /\ sweep.pc = "returned"
          => /\ sweep.reads = 1
             /\ sweep.count = sweep.moved

-----------------------------------------------------------------------------
(* C24 *)

\* the tasks of a project other than the one with this id, in stored order
OtherTasks(project, task_id) ==
    SelectSeq(project.tasks, LAMBDA task : task.id # task_id)

\* the ids of the tasks these projects hold under this project id
TaskIdsIn(ps, project_id) ==
    {task.id : task \in {stored \in StoredTasks(ps) : stored.project_id = project_id}}

-----------------------------------------------------------------------------
(* C27 *)

\* the repository as the step leaves it
RepoAfter == [projects |-> projects', next_project_id |-> next_project_id']

\* C27: deleting releases what was held.  After a successful delete_project,
\* create_project under the deleted project's name (with a description of
\* valid length) succeeds, and when max_projects projects were stored before
\* the deletion, create_project under any valid name no remaining project
\* holds succeeds; after a successful delete_task on a project that held
\* max_tasks tasks, add_task_to_project with a valid title, description and
\* deadline succeeds for that project.
C27_DeletingReleases ==
    [][/\ Called("delete_project") /\ result'.err = NoError =>
            /\ Service_create_project(RepoAfter, ProjectWithId(Arg(1)).name, "",
                                      now').err = NoError
            /\ Len(projects) >= max_projects =>
                  \A name \in ProjectNames :
                     (/\ Len(name) <= NameMaxLen
                      /\ \A i \in 1..Len(projects') : projects'[i].name # name)
                        => Service_create_project(RepoAfter, name, "", now').err = NoError
       /\ (/\ Called("delete_task") /\ result'.err = NoError
           /\ Len(ProjectWithId(Arg(1)).tasks) >= max_tasks)
             => \A deadline_str \in {None, Some(<<"2", "0", "2", "0", "-", "0", "1", "-", "0", "1">>)} :
                   Service_add_task_to_project(RepoAfter, Arg(1), "t", "",
                                               deadline_str).err = NoError]_vars

\* a task of a project that held max_tasks tasks was deleted: the project's
\* task-id counter shows max_tasks tasks were added and one fewer is held
C27_Witness ==
    /\ result.op = "delete_task" /\ result.err = NoError
    /\ \E i \in 1..Len(projects) :
          /\ projects[i].id = result.args[1]
          /\ projects[i].next_task_id = FirstTaskId + max_tasks
          /\ Len(projects[i].tasks) = max_tasks - 1

-----------------------------------------------------------------------------
(* C21 *)

InterfaceMethods ==
    {"create_project", "list_projects", "find_project_by_id", "find_project_by_name",
     "update_project", "delete_project", "create_task", "update_task_status",
     "update_task", "delete_task", "find_overdue_tasks"}

\* a returned task without its storage-generated timestamp
TaskView(task) ==
    [id |-> task.id, project_id |-> task.project_id, title |-> task.title,
     description |-> task.description, status |-> task.status,
     deadline |-> task.deadline, closed_at |-> task.closed_at]

\* the tasks a returned project holds: a list in the in-memory repository,
\* the rows loaded through the relationship in the persistent one
TasksOf(project) ==
    IF "creation_date" \in DOMAIN project
    THEN {project.tasks[k] : k \in 1..Len(project.tasks)}
    ELSE project.tasks

\* a returned entity without its storage-generated timestamps
EntityView(entity) ==
    IF IsProject(entity)
    THEN [id |-> entity.id, name |-> entity.name, description |-> entity.description,
          tasks |-> {TaskView(task) : task \in TasksOf(entity)}]
    ELSE TaskView(entity)

\* what a call returned: nothing, one entity or a list of entities
Returned(ret) == [k \in 1..Len(ret) |-> EntityView(ret[k])]

\* C21: the persistent repository provides every method of the repository
\* interface with the parameters the in-memory repository takes, and for every
\* sequence of calls made on both, each call ends with the same error or the
\* same returned value in both, storage-generated timestamps apart.
C21_SameContract ==
    [][result'.op \in InterfaceMethods =>
         /\ db_result'.op = result'.op
         /\ Len(db_result'.args) = Len(result'.args)
         /\ db_result'.err = result'.err
         /\ Returned(db_result'.ret) = Returned(result'.ret)]_vars

====
